---------------------------- MODULE Spec2Model ----------------------------
(***************************************************************************)
(* The ingestion pipeline of crawl_tiled_docs.py: crawl_parallel (the      *)
(* batched fetch scheduler and its result loop), process_and_store_document*)
(* (chunking, enrichment and storing of one page), process_chunk,          *)
(* get_title_and_summary, get_embedding, insert_chunk and chunk_text.      *)
(*                                                                         *)
(* Python strings are TLA+ strings; list indices are the code's 0-based    *)
(* indices.  The remote collaborators (page fetcher, completion service,   *)
(* embedding service, table store) answer nondeterministically.            *)
(***************************************************************************)
EXTENDS Integers, Sequences, FiniteSets, TLC

(***************************************************************************)
(* Bounds of the model.                                                    *)
(***************************************************************************)
\* longest URL list given to crawl_parallel
MaxUrls == 2
\* largest concurrency limit (max_concurrent ranges over 1..MaxConcurrent)
MaxConcurrent == 2
\* most remote calls that fail in one run
MaxFaults == 2
\* most tokens (words and structural markers) an input text of chunk_text
\* is made of
MaxTokens == 5
\* the smaller of the two chunk sizes chunk_text is called with on its own
SmallChunkSize == 8
\* most tokens of a text, and the largest chunk size (from 1 up), that
\* chunk_text is run to its end with
ShortTokens == 2
TinyChunkSize == 4
\* the chunk size process_and_store_document chunks with.  The code uses
\* chunk_text's default of 4000 characters; the pages of the model are a
\* few dozen characters long, and the window is scaled with them.
ChunkSize == 16

\* length of a vector of the embedding service (text-embedding-ada-002)
EmbeddingDim == 1536

(***************************************************************************)
(* Python's str and list operations, as the code uses them.                *)
(***************************************************************************)
\* characters str.strip() removes
Whitespace == {" ", "\n", "\t", "\r"}

\* text[a:b] for 0 <= a, with b clipped to the length as Python does
slice(text, a, b) ==
    LET e == IF b > Len(text) THEN Len(text) ELSE b
    IN  IF a >= e THEN "" ELSE SubSeq(text, a + 1, e)

\* sub in s
contains(s, sub) ==
    \E k \in 1..(Len(s) - Len(sub) + 1) : SubSeq(s, k, k + Len(sub) - 1) = sub

\* s.rfind(sub): the highest 0-based index at which sub occurs, -1 if none
rfind(s, sub) ==
    LET hits == {k \in 0..(Len(s) - Len(sub)) : SubSeq(s, k + 1, k + Len(sub)) = sub}
    IN  IF hits = {} THEN -1 ELSE CHOOSE k \in hits : \A m \in hits : m <= k

\* max(a, b)
max(a, b) == IF a >= b THEN a ELSE b

RECURSIVE lstrip(_)
lstrip(s) ==
    IF Len(s) > 0 /\ SubSeq(s, 1, 1) \in Whitespace
    THEN lstrip(SubSeq(s, 2, Len(s)))
    ELSE s

RECURSIVE rstrip(_)
rstrip(s) ==
    IF Len(s) > 0 /\ SubSeq(s, Len(s), Len(s)) \in Whitespace
    THEN rstrip(SubSeq(s, 1, Len(s) - 1))
    ELSE s

\* s.strip()
strip(s) == rstrip(lstrip(s))

\* s.split(sep) for a one-character separator: always at least one part
RECURSIVE split(_, _)
split(s, sep) ==
    IF \A k \in 1..Len(s) : SubSeq(s, k, k) # sep
    THEN <<s>>
    ELSE LET k == CHOOSE k \in 1..Len(s) :
                     /\ SubSeq(s, k, k) = sep
                     /\ \A m \in 1..(k - 1) : SubSeq(s, m, m) # sep
         IN  <<SubSeq(s, 1, k - 1)>> \o split(SubSeq(s, k + 1, Len(s)), sep)

(***************************************************************************)
(* chunk_text                                                              *)
(***************************************************************************)
\* The code-fence marker the code searches for is three backquotes.  A
\* TLA+ string cannot hold a backquote: in every text of the model the
\* character ~ stands for it.
Fence == "~~~"

\* Mutant of past_30_percent: no floor, every offset found passes.
past_30_percent_no_floor(x, chunk_size) == x >= 0

\* x > chunk_size * 0.3 for an integer x.  The float product is the exact
\* 3 * chunk_size / 10 whenever that is an integer, so the comparison is
\* the integer one.
past_30_percent(x, chunk_size) == 10 * x > 3 * chunk_size

\* Mutant of split_offset: the 30% floor is dropped, every marker found is
\* taken.
split_offset_no_floor(chunk, chunk_size) ==
    LET section_break == max(rfind(chunk, "\n## "), rfind(chunk, "\n# "))
    IN  IF section_break # -1 THEN section_break
        ELSE IF contains(chunk, Fence) THEN rfind(chunk, Fence)
        ELSE IF contains(chunk, "\n\n") THEN rfind(chunk, "\n\n")
        ELSE IF contains(chunk, ". ") THEN rfind(chunk, ". ") + 1
        ELSE chunk_size

\* Mutant of split_offset: the heading is tried after the code fence.
split_offset_fence_first(chunk, chunk_size) ==
    LET section_break == max(rfind(chunk, "\n## "), rfind(chunk, "\n# "))
        code_block    == rfind(chunk, Fence)
    IN  IF code_block # -1 /\ past_30_percent(code_block, chunk_size)
        THEN code_block
        ELSE IF section_break # -1 /\ past_30_percent(section_break, chunk_size)
        THEN section_break
        ELSE chunk_size

\* Mutant of split_offset: the sentence branch cuts at the period itself.
split_offset_at_period(chunk, chunk_size) ==
    LET section_break == max(rfind(chunk, "\n## "), rfind(chunk, "\n# "))
        code_block    == rfind(chunk, Fence)
        last_break    == rfind(chunk, "\n\n")
        last_period   == rfind(chunk, ". ")
    IN  IF section_break # -1 /\ past_30_percent(section_break, chunk_size)
        THEN section_break
        ELSE IF contains(chunk, Fence)
        THEN IF code_block # -1 /\ past_30_percent(code_block, chunk_size)
             THEN code_block ELSE chunk_size
        ELSE IF contains(chunk, "\n\n")
        THEN IF past_30_percent(last_break, chunk_size)
             THEN last_break ELSE chunk_size
        ELSE IF contains(chunk, ". ")
        THEN IF past_30_percent(last_period, chunk_size)
             THEN last_period ELSE chunk_size
        ELSE chunk_size

\* The if/elif chain of one window: the offset (end - start) at which the
\* window text[start:start + chunk_size] is cut.  A branch whose marker is
\* present but not past 30% leaves end at start + chunk_size, and the
\* branches after it are not tried.
split_offset(chunk, chunk_size) ==
    LET section_break == max(rfind(chunk, "\n## "), rfind(chunk, "\n# "))
        code_block    == rfind(chunk, Fence)
        last_break    == rfind(chunk, "\n\n")
        last_period   == rfind(chunk, ". ")
    IN  IF section_break # -1 /\ past_30_percent(section_break, chunk_size)
        THEN section_break
        ELSE IF contains(chunk, Fence)
        THEN IF code_block # -1 /\ past_30_percent(code_block, chunk_size)
             THEN code_block ELSE chunk_size
        ELSE IF contains(chunk, "\n\n")
        THEN IF past_30_percent(last_break, chunk_size)
             THEN last_break ELSE chunk_size
        ELSE IF contains(chunk, ". ")
        THEN IF past_30_percent(last_period, chunk_size)
             THEN last_period + 1 ELSE chunk_size
        ELSE chunk_size

\* Mutant of next_start: the next window starts one character early.
next_start_overlap(end) == end - 1

\* start = end
next_start(end) == end

\* The while loop of chunk_text, from cursor start with the chunks so far.
RECURSIVE chunk_loop(_, _, _, _)
chunk_loop(text, chunk_size, start, chunks) ==
    IF ~(start < Len(text))
    THEN chunks
    ELSE IF start + chunk_size >= Len(text)
    THEN Append(chunks, strip(slice(text, start, Len(text))))
    ELSE LET end   == start + split_offset(slice(text, start, start + chunk_size), chunk_size)
             chunk == strip(slice(text, start, end))
         IN  chunk_loop(text, chunk_size, next_start(end),
                        IF chunk # "" THEN Append(chunks, chunk) ELSE chunks)

chunk_text(text, chunk_size) == chunk_loop(text, chunk_size, 0, <<>>)

(***************************************************************************)
(* The world outside the program: the URLs it may be given, the page each  *)
(* URL serves, and the answers of the remote services.                     *)
(***************************************************************************)
\* One catalogue URL, and one URL of the fetcher's raw: scheme, which has
\* no "/" in it.
Urls == {"https://d.org/manual/layers/", "raw:Tiled docs"}

\* result.markdown_v2.raw_markdown of a successful fetch of url
raw_markdown(url) ==
    IF url = "raw:Tiled docs" THEN "Tiled docs"
    ELSE "# Layers\n\nTile layers."

\* the pages the fetcher can deliver
Pages == {raw_markdown(u) : u \in Urls}

\* chunk_text(markdown), as process_and_store_document calls it, tabulated
\* over the pages
page_chunks == [text \in Pages |-> chunk_text(text, ChunkSize)]

\* what the input texts of chunk_text are made of: a word, the heading
\* markers, the code fence, a blank line, and a sentence end
Tokens == {"ab", "\n# ", "\n## ", Fence, "\n\n", ". "}

\* every text of at most n tokens
RECURSIVE Texts(_)
Texts(n) ==
    IF n = 0 THEN {""}
    ELSE Texts(n - 1) \cup {t \o k : t \in Texts(n - 1), k \in Tokens}

\* the chunk sizes chunk_text is called with on its own
ChunkSizes == {SmallChunkSize, SmallChunkSize + 2}

\* every list of at most n URLs
RECURSIVE UrlLists(_)
UrlLists(n) ==
    IF n = 0 THEN {<<>>}
    ELSE UrlLists(n - 1) \cup
         {Append(l, u) : l \in {x \in UrlLists(n - 1) : Len(x) = n - 1}, u \in Urls}

\* Python's None as a value inside a record
None == "None"

\* a local variable that holds no value (not assigned yet, or out of scope)
Unset == [unset |-> TRUE]

\* process_and_store_document's url while no document is being processed
NoUrl == ""

\* chunk_text's window before its first pass
NoWindow == [start |-> 0, end |-> 0, final |-> FALSE]

\* what the fetcher can deliver for one URL
FetchOutcomes == {"success", "failure", "exception"}

\* the ways get_title_and_summary's try block fails, with str(e)
MetaFailures == {"api_error", "bad_json", "missing_keys"}

error_text(kind) ==
    CASE kind = "api_error"    -> "Connection error."
      [] kind = "bad_json"     -> "Expecting value: line 1 column 1 (char 0)"
      [] kind = "missing_keys" -> "Missing required keys in API response"

\* a well-formed answer of the completion service
completion_result ==
    [title    |-> "Layers",
     summary  |-> "Working with layers",
     metadata |-> [category     |-> "Manual",
                   features     |-> <<"layers">>,
                   file_formats |-> <<>>,
                   version_info |-> "1.10"]]

\* A list of floats, kept as its length and whether every entry is 0.
\* response.data[0].embedding of the embedding service:
service_embedding == [len |-> EmbeddingDim, all_zero |-> FALSE]

\* the list [] (its entries are vacuously all 0)
empty_list == [len |-> 0, all_zero |-> TRUE]

\* the list [0] * n
zero_vector(n) == [len |-> n, all_zero |-> TRUE]

(***************************************************************************)
(* State.                                                                  *)
(***************************************************************************)
VARIABLES
    urls,             \* crawl_parallel's argument
    max_concurrent,   \* crawl_parallel's argument
    pc,               \* where crawl_parallel (and the call it awaits) stands
    crawler,          \* "new", "started" or "closed"
    success_count,
    fail_count,
    i,                \* start index of the current batch
    batch,            \* urls[i:i + max_concurrent]
    task,             \* per list position: "pending", "in_flight", or how the fetch ended
    results,          \* what asyncio.gather returned for the batch
    j,                \* position of the result loop inside the batch
    reported,         \* per list position: the line the result loop printed
    printed_errors,   \* the (url, error) pairs of the error lines it printed
    handed,           \* per list position: the chunks handed to insert_chunk, in order
    summary,          \* the crawling summary printed at the end
    doc_url,          \* process_and_store_document's url
    chunks,           \* process_and_store_document's chunks
    ci,               \* its loop index (the chunk number)
    result,           \* process_chunk's result (title, summary, metadata)
    processed_chunk,  \* the ProcessedChunk handed to insert_chunk
    meta_outcome,     \* how the completion call of the current chunk went
    embed_outcome,    \* how the embedding call of the current chunk went
    exc,              \* the exception process_chunk raised, if any
    insert_result,    \* what insert_chunk returned for the current chunk
    store,            \* the rows of table tiled_docs_pages, in insertion order
    faults,           \* remote calls that have failed so far
    text,             \* chunk_text's argument
    chunk_size,       \* chunk_text's argument
    start,            \* chunk_text's cursor
    ct_chunks,        \* chunk_text's chunks
    window,           \* the slice text[start:end] its last pass took
    ct_pc             \* where a call of chunk_text stands

vars == <<urls, max_concurrent, pc, crawler, success_count, fail_count, i, batch,
          task, results, j, reported, printed_errors, handed, summary, doc_url,
          chunks, ci, result, processed_chunk, meta_outcome, embed_outcome, exc,
          insert_result, store, faults, text, chunk_size, start, ct_chunks, window,
          ct_pc>>

sched_vars == <<urls, max_concurrent, crawler, i, batch, task, results, j, summary>>
doc_vars   == <<doc_url, chunks, ci, result, processed_chunk, meta_outcome,
                embed_outcome, exc, insert_result>>
chunker_vars == <<text, chunk_size, start, ct_chunks, window, ct_pc>>

\* list positions of urls, 0-based
Positions == 0..(Len(urls) - 1)

\* list positions of the current batch
BatchPositions == i..(i + Len(batch) - 1)

Init ==
    /\ urls \in UrlLists(MaxUrls)
    /\ max_concurrent \in 1..MaxConcurrent
    /\ pc = "start"
    /\ crawler = "new"
    /\ success_count = 0
    /\ fail_count = 0
    /\ i = 0
    /\ batch = <<>>
    /\ task = [p \in Positions |-> "pending"]
    /\ results = <<>>
    /\ j = 0
    /\ reported = [p \in Positions |-> "none"]
    /\ printed_errors = {}
    /\ handed = [p \in Positions |-> <<>>]
    /\ summary = Unset
    /\ doc_url = NoUrl
    /\ chunks = <<>>
    /\ ci = 0
    /\ result = Unset
    /\ processed_chunk = Unset
    /\ meta_outcome = "none"
    /\ embed_outcome = "none"
    /\ exc = "none"
    /\ insert_result = "none"
    /\ store = <<>>
    /\ faults = 0
    /\ text = ""
    /\ chunk_size = ChunkSize
    /\ start = 0
    /\ ct_chunks = <<>>
    /\ window = NoWindow
    /\ ct_pc = "idle"

(***************************************************************************)
(* crawl_parallel                                                          *)
(***************************************************************************)
\* urls[a:b]
list_slice(l, a, b) ==
    LET e == IF b > Len(l) THEN Len(l) ELSE b
    IN  IF a >= e THEN <<>> ELSE SubSeq(l, a + 1, e)

\* Mutant of batch_slice: a slice that is one URL too long.
batch_slice_wide(first) == list_slice(urls, first, first + max_concurrent + 1)

\* batch = urls[i:i + max_concurrent]
batch_slice(first) == list_slice(urls, first, first + max_concurrent)

\* Mutant of next_batch_start: the loop advances by one URL, not one batch.
next_batch_start_one(first) == first + 1

\* the step of range(0, len(urls), max_concurrent)
next_batch_start(first) == first + max_concurrent

\* a remote call may fail only while the run's fault allowance lasts
MayFail == faults < MaxFaults

\* await crawler.start(); success_count = 0; fail_count = 0; the range starts at 0
CrawlerStart ==
    /\ pc = "start"
    /\ crawler' = "started"
    /\ success_count' = 0
    /\ fail_count' = 0
    /\ i' = 0
    /\ pc' = "batch"
    /\ UNCHANGED <<urls, max_concurrent, batch, task, results, j, reported, printed_errors, handed, summary,
                   store, faults>>
    /\ UNCHANGED doc_vars
    /\ UNCHANGED chunker_vars

\* Mutant of LaunchBatch: a fetch is created for every URL not fetched yet,
\* not only for those of the batch.
LaunchBatch_all ==
    /\ pc = "batch"
    /\ i < Len(urls)
    /\ batch' = batch_slice(i)
    /\ task' = [p \in Positions |-> IF p >= i THEN "in_flight" ELSE task[p]]
    /\ pc' = "gather"
    /\ UNCHANGED <<urls, max_concurrent, crawler, success_count, fail_count, i,
                   results, j, reported, printed_errors, handed, summary, store, faults>>
    /\ UNCHANGED doc_vars
    /\ UNCHANGED chunker_vars

\* One pass of the batch loop up to the await: slice the batch, create one
\* crawler.arun per URL, and hand them all to asyncio.gather.
LaunchBatch ==
    /\ pc = "batch"
    /\ i < Len(urls)
    /\ batch' = batch_slice(i)
    /\ task' = [p \in Positions |->
                  IF p \in i..(i + Len(batch_slice(i)) - 1) THEN "in_flight" ELSE task[p]]
    /\ pc' = "gather"
    /\ UNCHANGED <<urls, max_concurrent, crawler, success_count, fail_count, i,
                   results, j, reported, printed_errors, handed, summary, store, faults>>
    /\ UNCHANGED doc_vars
    /\ UNCHANGED chunker_vars

\* One in-flight crawler.arun ends: with a successful result, with a result
\* whose success is False, or by raising.
FetchReturn(p, outcome) ==
    /\ pc = "gather"
    /\ task[p] = "in_flight"
    /\ outcome # "success" => MayFail
    /\ task' = [task EXCEPT ![p] = outcome]
    /\ faults' = IF outcome = "success" THEN faults ELSE faults + 1
    /\ UNCHANGED <<urls, max_concurrent, pc, crawler, success_count, fail_count, i,
                   batch, results, j, reported, printed_errors, handed, summary, store>>
    /\ UNCHANGED doc_vars
    /\ UNCHANGED chunker_vars

\* Mutant of error_line: the line does not name the URL.
error_line_anonymous(url, res) == [url |-> "", error |-> res.error_message]

\* the (url, error) pair of the line the result loop prints for a fetch that
\* raised ("Error crawling {url}: {result}") or did not succeed ("Failed to
\* crawl {url}: {result.error_message}")
error_line(url, res) == [url |-> url, error |-> res.error_message]

\* Mutant of gather_result: gather without isolation, where one task's
\* exception becomes the result of every task of the batch.
gather_result_fail_fast(p) ==
    IF \E q \in BatchPositions : task[q] = "exception"
    THEN [is_exception |-> TRUE, success |-> FALSE, markdown |-> "",
          error_message |-> "TimeoutError"]
    ELSE IF task[p] = "success"
    THEN [is_exception |-> FALSE, success |-> TRUE,
          markdown |-> raw_markdown(urls[p + 1]), error_message |-> ""]
    ELSE [is_exception |-> FALSE, success |-> FALSE, markdown |-> "",
          error_message |-> "HTTP 404"]

\* the entry asyncio.gather(*tasks, return_exceptions=True) returns for the
\* task of position p: the exception it raised, or its result
gather_result(p) ==
    CASE task[p] = "exception" ->
           [is_exception |-> TRUE, success |-> FALSE, markdown |-> "",
            error_message |-> "TimeoutError"]
      [] task[p] = "success" ->
           [is_exception |-> FALSE, success |-> TRUE,
            markdown |-> raw_markdown(urls[p + 1]), error_message |-> ""]
      [] task[p] = "failure" ->
           [is_exception |-> FALSE, success |-> FALSE, markdown |-> "",
            error_message |-> "HTTP 404"]

\* gather returns once every task of the batch has ended
gather_done == \A p \in BatchPositions : task[p] \in FetchOutcomes

GatherReturn ==
    /\ pc = "gather"
    /\ gather_done
    /\ results' = [k \in 1..Len(batch) |-> gather_result(i + k - 1)]
    /\ j' = 0
    /\ pc' = "results"
    /\ UNCHANGED <<urls, max_concurrent, crawler, success_count, fail_count, i, batch,
                   task, reported, printed_errors, handed, summary, store, faults>>
    /\ UNCHANGED doc_vars
    /\ UNCHANGED chunker_vars

\* Mutant of ResultException: the exception branch forgets to count.
ResultException_uncounted ==
    /\ pc = "results"
    /\ j < Len(batch)
    /\ results[j + 1].is_exception
    /\ reported' = [reported EXCEPT ![i + j] = "error"]
    /\ printed_errors' = printed_errors \cup {error_line(batch[j + 1], results[j + 1])}
    /\ pc' = "sleep"
    /\ UNCHANGED <<success_count, fail_count, handed, store, faults>>
    /\ UNCHANGED sched_vars
    /\ UNCHANGED doc_vars
    /\ UNCHANGED chunker_vars

\* isinstance(result, Exception): print, fail_count += 1
ResultException ==
    /\ pc = "results"
    /\ j < Len(batch)
    /\ results[j + 1].is_exception
    /\ reported' = [reported EXCEPT ![i + j] = "error"]
    /\ printed_errors' = printed_errors \cup {error_line(batch[j + 1], results[j + 1])}
    /\ fail_count' = fail_count + 1
    /\ pc' = "sleep"
    /\ UNCHANGED <<success_count, handed, store, faults>>
    /\ UNCHANGED sched_vars
    /\ UNCHANGED doc_vars
    /\ UNCHANGED chunker_vars

\* Mutant of ResultFailure: the page of a fetch that did not succeed is
\* handed to process_and_store_document all the same.
ResultFailure_processed ==
    /\ pc = "results"
    /\ j < Len(batch)
    /\ ~results[j + 1].is_exception
    /\ ~results[j + 1].success
    /\ reported' = [reported EXCEPT ![i + j] = "failed"]
    /\ printed_errors' = printed_errors \cup {error_line(batch[j + 1], results[j + 1])}
    /\ doc_url' = batch[j + 1]
    /\ chunks' = <<"HTTP 404">>
    /\ ci' = 0
    /\ pc' = "chunks"
    /\ UNCHANGED <<success_count, fail_count, handed, store, faults, result,
                   processed_chunk, meta_outcome, embed_outcome, exc, insert_result>>
    /\ UNCHANGED sched_vars
    /\ UNCHANGED chunker_vars

\* result.success is False: print, fail_count += 1
ResultFailure ==
    /\ pc = "results"
    /\ j < Len(batch)
    /\ ~results[j + 1].is_exception
    /\ ~results[j + 1].success
    /\ reported' = [reported EXCEPT ![i + j] = "failed"]
    /\ printed_errors' = printed_errors \cup {error_line(batch[j + 1], results[j + 1])}
    /\ fail_count' = fail_count + 1
    /\ pc' = "sleep"
    /\ UNCHANGED <<success_count, handed, store, faults>>
    /\ UNCHANGED sched_vars
    /\ UNCHANGED doc_vars
    /\ UNCHANGED chunker_vars

\* result.success: print, then call process_and_store_document, which
\* chunks the page before its first await
ResultSuccess ==
    /\ pc = "results"
    /\ j < Len(batch)
    /\ ~results[j + 1].is_exception
    /\ results[j + 1].success
    /\ reported' = [reported EXCEPT ![i + j] = "success"]
    /\ doc_url' = batch[j + 1]
    /\ chunks' = page_chunks[results[j + 1].markdown]
    /\ ci' = 0
    /\ pc' = "chunks"
    /\ UNCHANGED <<success_count, fail_count, printed_errors, handed, store, faults,
                   result, processed_chunk, meta_outcome, embed_outcome, exc,
                   insert_result>>
    /\ UNCHANGED sched_vars
    /\ UNCHANGED chunker_vars

\* await asyncio.sleep(1) at the end of one pass of the result loop
RateLimitSleep ==
    /\ pc = "sleep"
    /\ j' = j + 1
    /\ pc' = "results"
    /\ UNCHANGED <<urls, max_concurrent, crawler, success_count, fail_count, i, batch,
                   task, results, reported, printed_errors, handed, summary, store, faults>>
    /\ UNCHANGED doc_vars
    /\ UNCHANGED chunker_vars

\* Mutant of BatchDone: a batch with a fetch that did not succeed is run again.
BatchDone_retry ==
    /\ pc = "results"
    /\ j >= Len(batch)
    /\ i' = IF \E p \in BatchPositions : task[p] # "success" /\ MayFail
            THEN i ELSE next_batch_start(i)
    /\ pc' = "batch"
    /\ UNCHANGED <<urls, max_concurrent, crawler, success_count, fail_count, batch,
                   task, results, j, reported, printed_errors, handed, summary, store, faults>>
    /\ UNCHANGED doc_vars
    /\ UNCHANGED chunker_vars

\* the result loop is exhausted: the batch loop advances
BatchDone ==
    /\ pc = "results"
    /\ j >= Len(batch)
    /\ i' = next_batch_start(i)
    /\ pc' = "batch"
    /\ UNCHANGED <<urls, max_concurrent, crawler, success_count, fail_count, batch,
                   task, results, j, reported, printed_errors, handed, summary, store, faults>>
    /\ UNCHANGED doc_vars
    /\ UNCHANGED chunker_vars

\* the batch loop is exhausted: print the crawling summary
PrintSummary ==
    /\ pc = "batch"
    /\ i >= Len(urls)
    /\ summary' = [success |-> success_count, failed |-> fail_count]
    /\ pc' = "closing"
    /\ UNCHANGED <<urls, max_concurrent, crawler, success_count, fail_count, i, batch,
                   task, results, j, reported, printed_errors, handed, store, faults>>
    /\ UNCHANGED doc_vars
    /\ UNCHANGED chunker_vars

\* finally: await crawler.close()
CrawlerClose ==
    /\ pc = "closing"
    /\ crawler' = "closed"
    /\ pc' = "done"
    /\ UNCHANGED <<urls, max_concurrent, success_count, fail_count, i, batch, task,
                   results, j, reported, printed_errors, handed, summary, store, faults>>
    /\ UNCHANGED doc_vars
    /\ UNCHANGED chunker_vars

(***************************************************************************)
(* process_and_store_document, process_chunk, get_title_and_summary,       *)
(* get_embedding, insert_chunk                                             *)
(***************************************************************************)
\* for i, chunk in enumerate(chunks): the next chunk enters process_chunk,
\* which awaits get_title_and_summary
StartChunk ==
    /\ pc = "chunks"
    /\ ci < Len(chunks)
    /\ pc' = "meta"
    /\ UNCHANGED <<success_count, fail_count, reported, printed_errors, handed, store, faults>>
    /\ UNCHANGED sched_vars
    /\ UNCHANGED doc_vars
    /\ UNCHANGED chunker_vars

\* get_title_and_summary's try block runs to its return
MetaReturn ==
    /\ pc = "meta"
    /\ result' = completion_result
    /\ meta_outcome' = "ok"
    /\ pc' = "embed"
    /\ UNCHANGED <<success_count, fail_count, reported, printed_errors, handed, store, faults,
                   doc_url, chunks, ci, processed_chunk, embed_outcome, exc,
                   insert_result>>
    /\ UNCHANGED sched_vars
    /\ UNCHANGED chunker_vars

\* Mutant of meta_fallback: the fallback's category is not "Error".
meta_fallback_uncategorised(url, e) ==
    LET parts == split(url, "/")
    IN  [title    |-> "Processing Error: " \o parts[Len(parts) - 1],
         summary  |-> "Failed to process content: " \o e,
         metadata |-> [category     |-> "Unknown",
                       features     |-> <<>>,
                       file_formats |-> <<>>,
                       version_info |-> None,
                       error        |-> e]]

\* the dictionary get_title_and_summary's except block returns
meta_fallback(url, e) ==
    LET parts == split(url, "/")
    IN  [title    |-> "Processing Error: " \o parts[Len(parts) - 1],
         summary  |-> "Failed to process content: " \o e,
         metadata |-> [category     |-> "Error",
                       features     |-> <<>>,
                       file_formats |-> <<>>,
                       version_info |-> None,
                       error        |-> e]]

\* url.split('/')[-2] raises IndexError when the list has fewer than 2 parts
fallback_raises(url) == Len(split(url, "/")) < 2

\* get_title_and_summary's try block raises (the call fails, json.loads
\* fails, or a key is missing) and its except block runs: it returns the
\* fallback, or raises IndexError itself, which process_chunk lets through
\* to process_and_store_document
MetaExcept(kind) ==
    /\ pc = "meta"
    /\ MayFail
    /\ faults' = faults + 1
    /\ meta_outcome' = kind
    /\ IF fallback_raises(doc_url)
       THEN /\ exc' = "IndexError"
            /\ pc' = "doc_except"
            /\ UNCHANGED result
       ELSE /\ result' = meta_fallback(doc_url, error_text(kind))
            /\ pc' = "embed"
            /\ UNCHANGED exc
    /\ UNCHANGED <<success_count, fail_count, reported, printed_errors, handed, store,
                   doc_url, chunks, ci, processed_chunk, embed_outcome, insert_result>>
    /\ UNCHANGED sched_vars
    /\ UNCHANGED chunker_vars

\* what get_embedding's except block returns
embedding_on_error == empty_list

\* ProcessedChunk(url, chunk_number, title, summary, content, metadata, embedding)
ProcessedChunk(url, chunk_number, res, content, embedding) ==
    [url          |-> url,
     chunk_number |-> chunk_number,
     title        |-> res.title,
     summary      |-> res.summary,
     content      |-> content,
     metadata     |-> res.metadata,
     embedding    |-> embedding]

\* Mutant of enumerate_number: enumerate(chunks, 1).
enumerate_number_from_one(index) == index + 1

\* the number enumerate(chunks) gives the chunk at list index index
enumerate_number(index) == index

\* what process_and_store_document passes to insert_chunk, by chunk number
\* and content
handed_chunk(chunk_number, content) == [chunk_number |-> chunk_number, content |-> content]

\* get_embedding returns the service's vector; process_chunk returns, and
\* process_and_store_document calls insert_chunk with what it returned
EmbedReturn ==
    /\ pc = "embed"
    /\ embed_outcome' = "ok"
    /\ processed_chunk' = ProcessedChunk(doc_url, enumerate_number(ci), result, chunks[ci + 1],
                                         service_embedding)
    /\ handed' = [handed EXCEPT ![i + j] = Append(@, handed_chunk(enumerate_number(ci), chunks[ci + 1]))]
    /\ result' = Unset
    /\ pc' = "insert"
    /\ UNCHANGED <<success_count, fail_count, reported, printed_errors, store, faults,
                   doc_url, chunks, ci, meta_outcome, exc, insert_result>>
    /\ UNCHANGED sched_vars
    /\ UNCHANGED chunker_vars

\* get_embedding's call raises and its except block returns; process_chunk returns
EmbedExcept ==
    /\ pc = "embed"
    /\ MayFail
    /\ faults' = faults + 1
    /\ embed_outcome' = "error"
    /\ processed_chunk' = ProcessedChunk(doc_url, enumerate_number(ci), result, chunks[ci + 1],
                                         embedding_on_error)
    /\ handed' = [handed EXCEPT ![i + j] = Append(@, handed_chunk(enumerate_number(ci), chunks[ci + 1]))]
    /\ result' = Unset
    /\ pc' = "insert"
    /\ UNCHANGED <<success_count, fail_count, reported, printed_errors, store,
                   doc_url, chunks, ci, meta_outcome, exc, insert_result>>
    /\ UNCHANGED sched_vars
    /\ UNCHANGED chunker_vars

\* the table after supabase.table("tiled_docs_pages").insert(data).execute()
\* succeeded: a plain insert adds the row
table_insert(table, data) == Append(table, data)

\* Mutant of InsertReturn: insert_chunk is started but not awaited; the
\* loop goes on to the next chunk while the store is still outstanding.
InsertReturn_not_awaited ==
    /\ pc = "insert"
    /\ ci' = ci + 1
    /\ processed_chunk' = Unset
    /\ meta_outcome' = "none"
    /\ embed_outcome' = "none"
    /\ pc' = "chunks"
    /\ UNCHANGED <<success_count, fail_count, reported, printed_errors, handed, store,
                   faults>>
    /\ UNCHANGED sched_vars
    /\ UNCHANGED <<doc_url, chunks, result, exc, insert_result>>
    /\ UNCHANGED chunker_vars

\* insert_chunk: the insert succeeds
InsertReturn ==
    /\ pc = "insert"
    /\ store' = table_insert(store, processed_chunk)
    /\ insert_result' = "response"
    /\ pc' = "chunk_sleep"
    /\ UNCHANGED <<success_count, fail_count, reported, printed_errors, handed, faults>>
    /\ UNCHANGED sched_vars
    /\ UNCHANGED <<doc_url, chunks, ci, result, processed_chunk, meta_outcome,
                   embed_outcome, exc>>
    /\ UNCHANGED chunker_vars

\* Mutant of InsertExcept: insert_chunk without its except block; the
\* exception reaches process_and_store_document.
InsertExcept_raises ==
    /\ pc = "insert"
    /\ MayFail
    /\ faults' = faults + 1
    /\ exc' = "APIError"
    /\ pc' = "doc_except"
    /\ UNCHANGED <<success_count, fail_count, reported, printed_errors, handed, store>>
    /\ UNCHANGED sched_vars
    /\ UNCHANGED <<doc_url, chunks, ci, result, processed_chunk, meta_outcome,
                   embed_outcome, insert_result>>
    /\ UNCHANGED chunker_vars

\* insert_chunk: the insert raises; the except block prints and returns None
InsertExcept ==
    /\ pc = "insert"
    /\ MayFail
    /\ faults' = faults + 1
    /\ insert_result' = None
    /\ pc' = "chunk_sleep"
    /\ UNCHANGED <<success_count, fail_count, reported, printed_errors, handed, store>>
    /\ UNCHANGED sched_vars
    /\ UNCHANGED <<doc_url, chunks, ci, result, processed_chunk, meta_outcome,
                   embed_outcome, exc>>
    /\ UNCHANGED chunker_vars

\* await asyncio.sleep(0.5), then the next pass of the chunk loop
ChunkSleep ==
    /\ pc = "chunk_sleep"
    /\ ci' = ci + 1
    /\ processed_chunk' = Unset
    /\ meta_outcome' = "none"
    /\ embed_outcome' = "none"
    /\ insert_result' = "none"
    /\ pc' = "chunks"
    /\ UNCHANGED <<success_count, fail_count, reported, printed_errors, handed, store, faults,
                   doc_url, chunks, result, exc>>
    /\ UNCHANGED sched_vars
    /\ UNCHANGED chunker_vars

\* the chunk loop is exhausted: process_and_store_document returns, and
\* crawl_parallel counts the URL: success_count += 1
DocumentDone ==
    /\ pc = "chunks"
    /\ ci >= Len(chunks)
    /\ success_count' = success_count + 1
    /\ doc_url' = NoUrl
    /\ chunks' = <<>>
    /\ ci' = 0
    /\ pc' = "sleep"
    /\ UNCHANGED <<fail_count, reported, printed_errors, handed, store, faults, result,
                   processed_chunk, meta_outcome, embed_outcome, exc, insert_result>>
    /\ UNCHANGED sched_vars
    /\ UNCHANGED chunker_vars

\* Mutant of DocumentExcept: the exception is not caught; it leaves
\* crawl_parallel through the finally block, which closes the crawler.
DocumentExcept_uncaught ==
    /\ pc = "doc_except"
    /\ crawler' = "closed"
    /\ pc' = "done"
    /\ UNCHANGED <<urls, max_concurrent, i, batch, task, results, j, summary>>
    /\ UNCHANGED <<success_count, fail_count, reported, printed_errors, handed, store, faults>>
    /\ UNCHANGED doc_vars
    /\ UNCHANGED chunker_vars

\* process_and_store_document's except block: it prints the error and
\* returns, and crawl_parallel counts the URL: success_count += 1
DocumentExcept ==
    /\ pc = "doc_except"
    /\ exc' = "none"
    /\ success_count' = success_count + 1
    /\ doc_url' = NoUrl
    /\ chunks' = <<>>
    /\ ci' = 0
    /\ meta_outcome' = "none"
    /\ pc' = "sleep"
    /\ UNCHANGED <<fail_count, reported, printed_errors, handed, store, faults, result,
                   processed_chunk, embed_outcome, insert_result>>
    /\ UNCHANGED sched_vars
    /\ UNCHANGED chunker_vars

Next ==
    \/ CrawlerStart
    \/ LaunchBatch
    \/ \E p \in Positions, outcome \in FetchOutcomes : FetchReturn(p, outcome)
    \/ GatherReturn
    \/ ResultException
    \/ ResultFailure
    \/ ResultSuccess
    \/ RateLimitSleep
    \/ BatchDone
    \/ PrintSummary
    \/ CrawlerClose
    \/ StartChunk
    \/ MetaReturn
    \/ \E kind \in MetaFailures : MetaExcept(kind)
    \/ EmbedReturn
    \/ EmbedExcept
    \/ InsertReturn
    \/ InsertExcept
    \/ ChunkSleep
    \/ DocumentDone
    \/ DocumentExcept

Spec == Init /\ [][Next]_vars

(***************************************************************************)
(* Runs that an exception cuts short.  gather(return_exceptions=True) and  *)
(* the except blocks catch Exception; what they do not catch (the          *)
(* cancellation of the run, a KeyboardInterrupt) is raised at the await    *)
(* where crawl_parallel stands and leaves the try block through finally.   *)
(***************************************************************************)
\* the control points at which crawl_parallel, or the call it awaits, awaits
AwaitPoints == {"gather", "sleep", "meta", "embed", "insert", "chunk_sleep"}

\* Mutant of Interrupt: no finally block; the exception leaves
\* crawl_parallel with the crawler as it is.
Interrupt_no_finally ==
    /\ pc \in AwaitPoints
    /\ task' = [p \in Positions |-> IF task[p] = "in_flight" THEN "cancelled" ELSE task[p]]
    /\ doc_url' = NoUrl
    /\ chunks' = <<>>
    /\ ci' = 0
    /\ result' = Unset
    /\ processed_chunk' = Unset
    /\ meta_outcome' = "none"
    /\ embed_outcome' = "none"
    /\ insert_result' = "none"
    /\ pc' = "done"
    /\ UNCHANGED <<urls, max_concurrent, crawler, success_count, fail_count, i, batch,
                   results, j, reported, printed_errors, handed, summary, exc, store,
                   faults>>
    /\ UNCHANGED chunker_vars

\* An exception that nothing catches is raised at the current await: the
\* fetches still in flight are cancelled with the gather, the frames of the
\* document being processed are left, and control passes to the finally
\* block without the summary being printed.
Interrupt ==
    /\ pc \in AwaitPoints
    /\ task' = [p \in Positions |-> IF task[p] = "in_flight" THEN "cancelled" ELSE task[p]]
    /\ doc_url' = NoUrl
    /\ chunks' = <<>>
    /\ ci' = 0
    /\ result' = Unset
    /\ processed_chunk' = Unset
    /\ meta_outcome' = "none"
    /\ embed_outcome' = "none"
    /\ insert_result' = "none"
    /\ pc' = "closing"
    /\ UNCHANGED <<urls, max_concurrent, crawler, success_count, fail_count, i, batch,
                   results, j, reported, printed_errors, handed, summary, exc, store,
                   faults>>
    /\ UNCHANGED chunker_vars

InterruptNext ==
    \/ Next
    \/ Interrupt

\* The event loop keeps running the coroutine; an interruption may come or not.
InterruptSpec == Init /\ [][InterruptNext]_vars /\ WF_vars(Next)

(***************************************************************************)
(* chunk_text on its own, one pass of its while loop at a time, over every *)
(* text of at most MaxTokens tokens.                                       *)
(***************************************************************************)
ChunkInit ==
    /\ urls = <<>>
    /\ max_concurrent = 1
    /\ pc = "chunk_text"
    /\ crawler = "new"
    /\ success_count = 0
    /\ fail_count = 0
    /\ i = 0
    /\ batch = <<>>
    /\ task = [p \in Positions |-> "pending"]
    /\ results = <<>>
    /\ j = 0
    /\ reported = [p \in Positions |-> "none"]
    /\ printed_errors = {}
    /\ handed = [p \in Positions |-> <<>>]
    /\ summary = Unset
    /\ doc_url = NoUrl
    /\ chunks = <<>>
    /\ ci = 0
    /\ result = Unset
    /\ processed_chunk = Unset
    /\ meta_outcome = "none"
    /\ embed_outcome = "none"
    /\ exc = "none"
    /\ insert_result = "none"
    /\ store = <<>>
    /\ faults = 0
    /\ text \in Texts(MaxTokens)
    /\ chunk_size \in ChunkSizes
    /\ start = 0
    /\ ct_chunks = <<>>
    /\ window = NoWindow
    /\ ct_pc = "loop"

\* what a pass of the chunker leaves alone
crawl_vars == <<urls, max_concurrent, pc, crawler, success_count, fail_count, i, batch,
                task, results, j, reported, printed_errors, handed, summary, doc_url,
                chunks, ci, result, processed_chunk, meta_outcome, embed_outcome, exc,
                insert_result, store, faults>>

\* Mutant of ChunkFinal: the remainder is appended as it is, not stripped.
ChunkFinal_unstripped ==
    /\ ct_pc = "loop"
    /\ start < Len(text)
    /\ start + chunk_size >= Len(text)
    /\ ct_chunks' = Append(ct_chunks, slice(text, start, Len(text)))
    /\ window' = [start |-> start, end |-> Len(text), final |-> TRUE]
    /\ ct_pc' = "returned"
    /\ UNCHANGED <<text, chunk_size, start>>
    /\ UNCHANGED crawl_vars

\* a pass with end >= text_length: append text[start:].strip() and break
ChunkFinal ==
    /\ ct_pc = "loop"
    /\ start < Len(text)
    /\ start + chunk_size >= Len(text)
    /\ ct_chunks' = Append(ct_chunks, strip(slice(text, start, Len(text))))
    /\ window' = [start |-> start, end |-> Len(text), final |-> TRUE]
    /\ ct_pc' = "returned"
    /\ UNCHANGED <<text, chunk_size, start>>
    /\ UNCHANGED crawl_vars

\* a pass with end < text_length: choose the split, append the stripped
\* slice unless it is empty, and move the cursor
ChunkWindow ==
    /\ ct_pc = "loop"
    /\ start < Len(text)
    /\ start + chunk_size < Len(text)
    /\ LET end   == start + split_offset(slice(text, start, start + chunk_size), chunk_size)
           chunk == strip(slice(text, start, end))
       IN  /\ ct_chunks' = (IF chunk # "" THEN Append(ct_chunks, chunk) ELSE ct_chunks)
           /\ window' = [start |-> start, end |-> end, final |-> FALSE]
           /\ start' = next_start(end)
    /\ UNCHANGED <<text, chunk_size, ct_pc>>
    /\ UNCHANGED crawl_vars

\* the loop condition start < text_length is false: return chunks
ChunkReturn ==
    /\ ct_pc = "loop"
    /\ ~(start < Len(text))
    /\ ct_pc' = "returned"
    /\ UNCHANGED <<text, chunk_size, start, ct_chunks, window>>
    /\ UNCHANGED crawl_vars

ChunkNext ==
    \/ ChunkWindow
    \/ ChunkFinal
    \/ ChunkReturn

ChunkSpec == ChunkInit /\ [][ChunkNext]_vars

\* chunk_text with every chunk size from 1 up, on the shorter texts
TinyInit ==
    /\ urls = <<>>
    /\ max_concurrent = 1
    /\ pc = "chunk_text"
    /\ crawler = "new"
    /\ success_count = 0
    /\ fail_count = 0
    /\ i = 0
    /\ batch = <<>>
    /\ task = [p \in Positions |-> "pending"]
    /\ results = <<>>
    /\ j = 0
    /\ reported = [p \in Positions |-> "none"]
    /\ printed_errors = {}
    /\ handed = [p \in Positions |-> <<>>]
    /\ summary = Unset
    /\ doc_url = NoUrl
    /\ chunks = <<>>
    /\ ci = 0
    /\ result = Unset
    /\ processed_chunk = Unset
    /\ meta_outcome = "none"
    /\ embed_outcome = "none"
    /\ exc = "none"
    /\ insert_result = "none"
    /\ store = <<>>
    /\ faults = 0
    /\ text \in Texts(ShortTokens)
    /\ chunk_size \in 1..TinyChunkSize
    /\ start = 0
    /\ ct_chunks = <<>>
    /\ window = NoWindow
    /\ ct_pc = "loop"

\* The interpreter runs the loop: a pass that can be taken is taken.
TinySpec == TinyInit /\ [][ChunkNext]_vars /\ WF_vars(ChunkNext)

\* Every awaited call returns or raises, and the event loop then resumes
\* the coroutine that awaits it.
FairSpec == Spec /\ WF_vars(Next)

(***************************************************************************)
(* Properties.                                                             *)
(***************************************************************************)
\* list positions whose fetch is launched and has not ended
InFlight == {p \in Positions : task[p] = "in_flight"}

\* list positions whose fetch has ended
Terminal == {p \in Positions : task[p] \in FetchOutcomes}

\* control points between gather's return and the end of the result loop
InResultLoop ==
    pc \in {"results", "sleep", "chunks", "meta", "embed", "insert", "chunk_sleep",
            "doc_except"}

\* list positions whose pass of the result loop has run its branch to the end
Handled ==
    {p \in Positions :
        \/ p < i
        \/ /\ InResultLoop
           /\ \/ p - i < j
              \/ p - i = j /\ pc = "sleep"}

\* C1: at no time are more than max_concurrent fetches in flight.
C1_InFlightBounded == Cardinality(InFlight) <= max_concurrent

C1_Witness == max_concurrent = 2 /\ Cardinality(InFlight) = 2

\* the line the result loop prints for a fetch that ended with outcome o
OwnReport(o) ==
    CASE o = "success"   -> "success"
      [] o = "failure"   -> "failed"
      [] o = "exception" -> "error"

\* C2: a failed fetch changes nothing for its siblings: whatever is reported
\* for a URL is the outcome of that URL's own fetch, and at the end of the
\* run every URL has been reported.
C2_FailureIsolated ==
    /\ \A p \in Positions :
          reported[p] # "none" => /\ task[p] \in FetchOutcomes
                                  /\ reported[p] = OwnReport(task[p])
    /\ pc = "done" => \A p \in Positions : reported[p] # "none"

C2_Witness ==
    /\ pc = "done"
    /\ \E p, q \in Positions :
          /\ p # q
          /\ p \div max_concurrent = q \div max_concurrent
          /\ task[p] = "exception"
          /\ task[q] = "success"
          /\ reported[q] = "success"

\* C3: every list position goes pending -> in-flight -> succeeded or failed,
\* one step at a time and never back, and has ended when the run is over:
\* each URL is fetched exactly once, and a failed URL is not fetched again.
C3_UrlStateMachine ==
    /\ [][\A p \in Positions :
            task'[p] # task[p] =>
               \/ task[p] = "pending" /\ task'[p] = "in_flight"
               \/ task[p] = "in_flight" /\ task'[p] \in FetchOutcomes]_vars
    /\ [](pc = "done" => Terminal = Positions)

C3_Witness ==
    /\ pc = "done"
    /\ \E p, q \in Positions : task[p] = "failure" /\ task[q] = "success"

\* C4: the batches are the consecutive slices of max_concurrent URLs (the
\* last one may be shorter), and while a fetch is in flight it belongs to the
\* current batch and every fetch of the batches before it has ended.
C4_BatchesInSequence ==
    /\ i % max_concurrent = 0
    /\ pc = "gather" \/ InResultLoop =>
          /\ Len(batch) = (IF Len(urls) - i < max_concurrent
                           THEN Len(urls) - i ELSE max_concurrent)
          /\ \A k \in 1..Len(batch) : batch[k] = urls[i + k]
    /\ \A p \in InFlight :
          /\ pc = "gather"
          /\ p \in BatchPositions
          /\ \A q \in Positions : q < i => q \in Terminal /\ reported[q] # "none"

C4_Witness == pc = "gather" /\ i > 0 /\ InFlight # {} /\ Terminal # {}

\* C5: every fetch result is counted exactly once: the two counters count
\* the handled URLs by outcome, and at the end they cover the whole list and
\* are what the summary prints.
C5_CountsExact ==
    /\ success_count + fail_count = Cardinality(Handled)
    /\ success_count = Cardinality({p \in Handled : task[p] = "success"})
    /\ fail_count = Cardinality({p \in Handled : task[p] \in {"failure", "exception"}})
    /\ pc = "done" =>
          /\ success_count + fail_count = Len(urls)
          /\ summary = [success |-> Cardinality({p \in Positions : task[p] = "success"}),
                        failed  |-> Cardinality({p \in Positions : task[p] # "success"})]

C5_Witness == pc = "done" /\ success_count = 1 /\ fail_count = 1

\* C6: every run ends: the summary with both counters is printed and the
\* crawler is closed, whichever remote calls failed on the way.
C6_RunCompletes ==
    <>(pc = "done" /\ summary # Unset /\ summary.success + summary.failed = Len(urls))

C6_Witness ==
    /\ pc = "done"
    /\ summary # Unset
    /\ summary.failed >= 1
    /\ summary.success >= 1
    /\ faults >= 2

\* C7: the table never holds two rows with the same (url, chunk_number).
C7_NoDuplicateRows ==
    \A a, b \in 1..Len(store) :
        (store[a].url = store[b].url /\ store[a].chunk_number = store[b].chunk_number)
            => a = b

\* C8: the record handed to insert_chunk after a failed embedding call has
\* the zero vector of the configured length as its embedding, and no record
\* handed over or stored has an embedding of another length.
C8_ZeroVectorOnFailure ==
    /\ pc = "insert" =>
          /\ processed_chunk.embedding.len = EmbeddingDim
          /\ embed_outcome = "error" =>
                processed_chunk.embedding = zero_vector(EmbeddingDim)
    /\ \A a \in 1..Len(store) : store[a].embedding.len = EmbeddingDim

\* C9: a record handed to insert_chunk after a failed metadata extraction
\* has category "Error", the title "Processing Error: " followed by a
\* "/"-separated part of the URL, and a summary that carries the error text.
C9_MetaFallbackRecord ==
    (pc = "insert" /\ meta_outcome \in MetaFailures) =>
        /\ processed_chunk.metadata.category = "Error"
        /\ SubSeq(processed_chunk.title, 1, 18) = "Processing Error: "
        /\ \E k \in 1..Len(split(processed_chunk.url, "/")) :
              split(processed_chunk.url, "/")[k]
                 = SubSeq(processed_chunk.title, 19, Len(processed_chunk.title))
        /\ processed_chunk.summary
              = "Failed to process content: " \o error_text(meta_outcome)

C9_Witness ==
    /\ pc = "insert"
    /\ meta_outcome = "missing_keys"
    /\ processed_chunk.title = "Processing Error: layers"

\* C10: process_chunk never raises: no exception reaches
\* process_and_store_document from it.
C10_ProcessChunkNeverRaises == exc = "none"

\* C11: a failed store of a chunk comes back to process_and_store_document
\* as the return value None, not as an exception, and the chunk loop goes on
\* as after a successful store: it sleeps, moves to the next chunk number of
\* the same page, enriches it, and after the last chunk returns to the
\* result loop, which goes on to the later pages.
C11_StoreFailureIsolated ==
    /\ [][pc = "insert" /\ pc' # "insert" =>
             /\ pc' = "chunk_sleep"
             /\ exc' = "none"
             /\ insert_result' = (IF store' = store THEN None ELSE "response")
             /\ UNCHANGED <<doc_url, chunks, ci, i, j, batch, results>>]_vars
    /\ [][pc = "chunk_sleep" =>
             /\ pc' = "chunks"
             /\ ci' = ci + 1
             /\ UNCHANGED <<doc_url, chunks, i, j, batch, results>>]_vars
    /\ [][pc = "chunks" =>
             /\ pc' = (IF ci < Len(chunks) THEN "meta" ELSE "sleep")
             /\ UNCHANGED <<i, j, batch, results>>]_vars

C11_Witness ==
    /\ pc = "insert"
    /\ ci = 1
    /\ Len(handed[i + j]) = 2
    /\ store = <<>>
    /\ faults = 1

\* the chunks chunk_text returned for the page of list position p, as
\* process_and_store_document hands them over when none is lost
page_handed(p) ==
    LET cs == page_chunks[raw_markdown(urls[p + 1])]
    IN  [k \in 1..Len(cs) |-> handed_chunk(k - 1, cs[k])]

\* C12: once a successfully fetched page has been processed, every chunk
\* chunk_text returned for it has been handed to insert_chunk exactly once.
C12_NoChunkLost ==
    \A p \in Handled : task[p] = "success" => handed[p] = page_handed(p)

\* list positions whose fetch did not succeed
FailedFetch(ps) == {p \in ps : task[p] \in {"failure", "exception"}}

distinct_urls == \A p, q \in Positions : urls[p + 1] = urls[q + 1] => p = q

Ink(s) == {k \in 1..Len(s) : SubSeq(s, k, k) \notin Whitespace}

\* s without its leading and trailing whitespace
trimmed(s) ==
    IF Ink(s) = {} THEN ""
    ELSE SubSeq(s, CHOOSE a \in Ink(s) : \A k \in Ink(s) : a <= k,
                   CHOOSE b \in Ink(s) : \A k \in Ink(s) : k <= b)

\* s without any whitespace
RECURSIVE squeeze(_)
squeeze(s) ==
    IF s = "" THEN ""
    ELSE IF SubSeq(s, 1, 1) \in Whitespace
    THEN squeeze(SubSeq(s, 2, Len(s)))
    ELSE SubSeq(s, 1, 1) \o squeeze(SubSeq(s, 2, Len(s)))

\* the strings of a list, joined
RECURSIVE joined(_)
joined(l) == IF l = <<>> THEN "" ELSE l[1] \o joined(Tail(l))

\* the 0-based offsets at which sub occurs in s
Occurrences(s, sub) ==
    {k \in 0..(Len(s) - Len(sub)) : SubSeq(s, k + 1, k + Len(sub)) = sub}

\* the largest element of a non-empty set of numbers
Last(S) == CHOOSE k \in S : \A m \in S : m <= k

\* a pass of the loop has taken a window that is not the final one
WindowTaken == window.end > window.start /\ ~window.final

\* text[start:start + chunk_size] of the last window
WindowText == slice(text, window.start, window.start + chunk_size)

\* the offset at which the last window was cut
CutOffset == window.end - window.start

Headings(w)  == Occurrences(w, "\n## ") \cup Occurrences(w, "\n# ")
Fences(w)    == Occurrences(w, Fence)
BlankLines(w) == Occurrences(w, "\n\n")
SentenceEnds(w) == Occurrences(w, ". ")

\* the offsets of S past 30% of the chunk size
Past30(S) == {k \in S : 10 * k > 3 * chunk_size}

\* C14 as stated: every text shorter than the chunk size gives exactly one
\* chunk, the text without its leading and trailing whitespace.
C14_ShortTextOneChunk ==
    (ct_pc = "returned" /\ Len(text) < chunk_size) => ct_chunks = <<trimmed(text)>>

\* C14, amended: every non-empty text shorter than the chunk size gives
\* exactly one chunk, the text without its leading and trailing whitespace;
\* the empty text gives no chunk.
C14_NonEmptyShortTextOneChunk ==
    (ct_pc = "returned" /\ Len(text) < chunk_size) =>
        ct_chunks = (IF text = "" THEN <<>> ELSE <<trimmed(text)>>)

C14_Witness ==
    /\ ct_pc = "returned"
    /\ 0 < Len(text)
    /\ Len(text) < chunk_size
    /\ trimmed(text) # text
    /\ trimmed(text) # ""
    /\ ct_chunks = <<trimmed(text)>>

\* C15: a non-empty text gives at least one chunk, and every chunk returned
\* is non-empty and has no leading or trailing whitespace.
C15_ChunksNonEmptyTrimmed ==
    ct_pc = "returned" =>
        /\ text # "" => Len(ct_chunks) >= 1
        /\ \A k \in 1..Len(ct_chunks) :
              ct_chunks[k] # "" /\ ct_chunks[k] = trimmed(ct_chunks[k])

\* C16: every pass takes the slice that starts at the cursor, which is 0 at
\* first and afterwards the end of the slice before; the slice is not empty,
\* the final one ends at the end of the text; the pass appends the slice
\* without its leading and trailing whitespace (a slice of whitespace only is
\* left out unless it is the final one); so the chunks returned, joined, are
\* the text but for whitespace.
C16_ConsecutiveSlices ==
    /\ [][(ct_pc = "loop" /\ start < Len(text)) =>
             /\ window'.start = start
             /\ window.end > window.start => window'.start = window.end
             /\ window'.end > window'.start
             /\ window'.end <= Len(text)
             /\ IF window'.final
                THEN window'.end = Len(text) /\ ct_pc' = "returned"
                ELSE start' = window'.end /\ ct_pc' = "loop"
             /\ LET piece == trimmed(slice(text, window'.start, window'.end))
                IN  ct_chunks' = (IF piece # "" \/ window'.final
                                  THEN Append(ct_chunks, piece) ELSE ct_chunks)]_vars
    /\ [](window.start = window.end => start = 0 /\ ct_chunks = <<>>)
    /\ [](ct_pc = "returned" =>
             /\ text # "" => window.final
             /\ squeeze(joined(ct_chunks)) = squeeze(text))

C16_Witness ==
    /\ ct_pc = "returned"
    /\ Len(ct_chunks) >= 3
    /\ window.final
    /\ joined(ct_chunks) # text
    /\ \A k \in 1..Len(ct_chunks) : ct_chunks[k] # ""

\* C17: a window that is not the final one is cut at an offset past 30% of
\* the chunk size, and at the chunk size exactly when no heading, code
\* fence, blank line or sentence end of the window lies past 30%.
C17_SplitPast30Percent ==
    WindowTaken =>
        /\ 10 * CutOffset > 3 * chunk_size
        /\ Past30(Headings(WindowText) \cup Fences(WindowText)
                    \cup BlankLines(WindowText) \cup SentenceEnds(WindowText)) = {}
              => CutOffset = chunk_size

C17_Witness ==
    /\ WindowTaken
    /\ CutOffset = chunk_size
    /\ Headings(WindowText) # {}
    /\ BlankLines(WindowText) # {}
    /\ Past30(Headings(WindowText) \cup Fences(WindowText)
                \cup BlankLines(WindowText) \cup SentenceEnds(WindowText)) = {}

\* the offset the priority rule gives: the last heading if it lies past 30%,
\* else the last code fence if it lies past 30%, else the last blank line if
\* it lies past 30%, else one past the last sentence end if that lies past
\* 30%, else the chunk size
PriorityOffset(w) ==
    IF Past30(Headings(w)) # {} THEN Last(Headings(w))
    ELSE IF Past30(Fences(w)) # {} THEN Last(Fences(w))
    ELSE IF Past30(BlankLines(w)) # {} THEN Last(BlankLines(w))
    ELSE IF Past30(SentenceEnds(w)) # {} THEN Last(SentenceEnds(w)) + 1
    ELSE chunk_size

\* C18: a window that is not the final one is cut where the first strategy
\* in the order heading, code fence, blank line, sentence end puts it whose
\* last marker lies past 30% of the chunk size; a strategy whose marker lies
\* at or before 30% is passed over.
C18_FirstQualifyingStrategy ==
    WindowTaken => CutOffset = PriorityOffset(WindowText)

\* C19: when the last heading of a window that is not the final one lies at
\* offset h past 30% of the chunk size, the window is cut at h whatever else
\* it contains: the chunk is text[start:start + h] trimmed, and the cursor of
\* the next pass is start + h.
C19_HeadingCut ==
    (WindowTaken /\ Past30(Headings(WindowText)) # {}) =>
        LET h == Last(Headings(WindowText))
        IN  /\ window.end = window.start + h
            /\ start = window.start + h
            /\ LET piece == trimmed(slice(text, window.start, window.start + h))
               IN  piece # "" => ct_chunks[Len(ct_chunks)] = piece

C19_Witness ==
    /\ WindowTaken
    /\ Past30(Headings(WindowText)) # {}
    /\ \E k \in Fences(WindowText) \cup BlankLines(WindowText) \cup SentenceEnds(WindowText) :
          k > Last(Headings(WindowText))
    /\ window.end = window.start + Last(Headings(WindowText))
    /\ start = window.end

\* the last window was cut by the sentence strategy: no heading of it lies
\* past 30%, it holds no code fence and no blank line, and its last sentence
\* end lies past 30%
SentenceCut ==
    /\ WindowTaken
    /\ Past30(Headings(WindowText)) = {}
    /\ Fences(WindowText) = {}
    /\ BlankLines(WindowText) = {}
    /\ Past30(SentenceEnds(WindowText)) # {}

\* C21: a window cut at a sentence end ". " is cut one character after the
\* period: the slice ends with the period, so does the chunk appended, and
\* the next window starts at the space that follows it.
C21_PeriodStaysWithSentence ==
    SentenceCut =>
        /\ CutOffset = Last(SentenceEnds(WindowText)) + 1
        /\ SubSeq(text, window.end, window.end) = "."
        /\ SubSeq(text, window.end + 1, window.end + 1) = " "
        /\ start = window.end
        /\ LET chunk == ct_chunks[Len(ct_chunks)]
           IN  SubSeq(chunk, Len(chunk), Len(chunk)) = "."

C21_Witness ==
    /\ SentenceCut
    /\ CutOffset < chunk_size
    /\ Cardinality(SentenceEnds(WindowText)) >= 2
    /\ ct_pc = "loop"

\* C25: chunk_text terminates for every chunk size from 1 up: a pass that
\* does not leave the loop moves the cursor forward, never past the end of
\* the text, and the call returns.
C25_ChunkTextTerminates ==
    /\ [][(ct_pc = "loop" /\ ct_pc' = "loop") =>
             start' > start /\ start' < Len(text)]_vars
    /\ [](ct_pc = "loop" /\ start < Len(text) => chunk_size >= 1)
    /\ <>(ct_pc = "returned")

C25_Witness ==
    /\ ct_pc = "returned"
    /\ chunk_size = 1
    /\ Len(text) >= 6
    /\ window.final
    /\ window.start = Len(text) - 1

\* control points inside process_and_store_document
InDocument == pc \in {"chunks", "meta", "embed", "insert", "chunk_sleep", "doc_except"}

\* C22: the chunks of a page are processed one after the other: while chunk
\* ci is enriched, exactly the chunks before it have been handed to
\* insert_chunk and none of their stores is outstanding; the loop moves to
\* the next chunk only from the sleep after insert_chunk has returned; and
\* rows are written only by the store of the current chunk, with its number.
C22_ChunksOneAfterTheOther ==
    /\ [](pc \in {"meta", "embed"} =>
             Len(handed[i + j]) = ci /\ insert_result = "none")
    /\ [](pc = "insert" => Len(handed[i + j]) = ci + 1 /\ insert_result = "none")
    /\ [](pc = "chunk_sleep" =>
             Len(handed[i + j]) = ci + 1 /\ insert_result \in {"response", None})
    /\ [][ci' # ci => \/ ci' = ci + 1 /\ pc = "chunk_sleep"
                      \/ ci' = 0]_vars
    /\ [][pc' = "meta" /\ pc # "meta" => pc = "chunks" /\ Len(handed[i + j]) = ci]_vars
    /\ [][store' # store =>
             /\ pc = "insert"
             /\ Len(store') = Len(store) + 1
             /\ SubSeq(store', 1, Len(store)) = store
             /\ store'[Len(store')].chunk_number = ci
             /\ store'[Len(store')].url = doc_url]_vars

C22_Witness ==
    /\ pc = "meta"
    /\ ci = 1
    /\ store # <<>>
    /\ store[Len(store)].chunk_number = 0
    /\ store[Len(store)].url = doc_url

\* C23: when process_chunk is over for a chunk, by returning or by raising,
\* the metadata call and the embedding call have each been made for it, and
\* neither outcome shows in the other's part of the record: the embedding is
\* the service's vector or the embedding fallback according to the embedding
\* call alone, and title, summary and metadata are the service's answer or
\* the metadata fallback according to the metadata call alone.
C23_CallsIndependent ==
    pc \in {"insert", "doc_except"} =>
        /\ meta_outcome # "none"
        /\ embed_outcome # "none"
        /\ pc = "insert" =>
              /\ processed_chunk.embedding
                    = (IF embed_outcome = "ok" THEN service_embedding
                       ELSE embedding_on_error)
              /\ LET res == IF meta_outcome = "ok" THEN completion_result
                            ELSE meta_fallback(doc_url, error_text(meta_outcome))
                 IN  /\ processed_chunk.title = res.title
                     /\ processed_chunk.summary = res.summary
                     /\ processed_chunk.metadata = res.metadata

\* C24: the delay of the result loop is taken once per batch: only after
\* the last result of the batch has been handled.
C24_OneDelayPerBatch == pc = "sleep" => j = Len(batch) - 1

C27_NoFetchWhileProcessing ==
    InResultLoop =>
        /\ InFlight = {}
        /\ \A p \in BatchPositions : task[p] \in FetchOutcomes
        /\ \A p \in Positions : p >= i + Len(batch) => task[p] = "pending"

C27_Witness ==
    /\ pc = "insert"
    /\ max_concurrent = 1
    /\ i = 0
    /\ Len(urls) = 2
    /\ task[1] = "pending"

\* C28: the crawler goes from new to started (by crawler.start) and from
\* started to closed (by the finally block), and no other way: it is closed
\* once.  The run is over exactly when the crawler is closed, and every run
\* that started the crawler closes it, whether the batch loop ended or an
\* exception left it.  From the finally block on no fetch is launched.
C28_CrawlerClosedOnce ==
    /\ [][crawler' # crawler =>
             \/ crawler = "new" /\ crawler' = "started" /\ pc = "start"
             \/ crawler = "started" /\ crawler' = "closed" /\ pc = "closing"]_vars
    /\ [](pc = "done" <=> crawler = "closed")
    /\ [][(pc = "closing" \/ pc = "done") => UNCHANGED task]_vars
    /\ (crawler = "started" ~> crawler = "closed")

C28_Witness ==
    /\ pc = "done"
    /\ crawler = "closed"
    /\ summary = Unset
    /\ \E p, q \in Positions : task[p] = "cancelled" /\ task[q] = "pending"

=============================================================================
